---- MODULE Spec2Model ----
(***************************************************************************)
(* Personal-memory vector indexing and retrieval of the brain service:     *)
(* services/memory_indexer.py (orchestrator and embedding store),          *)
(* services/faiss_store.py (snapshot writer) and services/memory_search.py *)
(* (index cache and similarity search).                                    *)
(*                                                                         *)
(* Every await of the asyncio code is a step boundary; the synchronous     *)
(* code between two awaits is one atomic action.  A file is modelled as a  *)
(* sequence of length 0 (absent) or 1 (present, holding its content).      *)
(* Floats are fixed-point integers with one decimal digit.  User ids are   *)
(* plain directory names, so distinct users have distinct directories.     *)
(*                                                                         *)
(* Spec is one process of the service.  SpecRestarts adds restarts of the  *)
(* process; SpecStore, SpecTx, SpecWriter, SpecCache, SpecSnapshot and     *)
(* SpecLookup drive one component each through direct calls.  In Spec the  *)
(* store of a batch is the commit of its transaction (SpecTx has the       *)
(* single statements).  SpecDrain is a run that nothing disturbs, under    *)
(* weak fairness of its steps; SpecGap adds rebuilds that fail; SpecShared *)
(* adds the searches served by the same process; SpecOverlap has two runs  *)
(* at once, each INSERT a step; SpecOrder repeats one query around         *)
(* rebuilds and evictions.  SpecBreaker is the circuit breaker of          *)
(* services/internal_client.py under overlapping calls.                    *)
(***************************************************************************)
EXTENDS Integers, Sequences, FiniteSets, TLC

\* ------------------------------------------------------------------ bounds
MaxChunks == 2
MaxBatch == 2
MaxK == 2
MaxRows == 2
MaxRecords == 1
MaxEntries == 2
MaxTicks == 4

\* ------------------------------------------------- program constants
CacheMaxSize == 32
\* CircuitBreaker(): failure_threshold=5, recovery_timeout=60
FailureThreshold == 5
RecoveryTimeout == 60

Users == {"alice", "bob"}
\* Invocations of process_pending_chunks: the scheduled job and the endpoint.
Runs == {1, 2}
\* Section 5: callers keep one orchestrator run active at a time.
Scheduled == {1}
\* Vectors an Embedding Generator call may return for a text.
Vecs == {<<3, 4>>, <<0, 2>>}
\* Invocations of call_with_breaker that may be in flight together.
Callers == {1, 2}
\* The loop's clock is read in steps of half a recovery timeout.
Step == RecoveryTimeout \div 2

VARIABLES
  openai_configured,  \* settings.enable_openai and settings.openai_api_key
  faiss,              \* TRUE iff the faiss module was imported
  chunks,             \* table memory_chunks: chunks[i] is the user_id of chunk i
  emb,                \* table memory_chunk_embeddings, rows in insertion order
  indexFile,          \* indexFile[u]: the file BASE_INDEX_DIR/<u>/index.faiss
  metaFile,           \* metaFile[u]: the file BASE_INDEX_DIR/<u>/meta.json
  cache,              \* lru_cache of _load_index, least recently used first
  runs,               \* runs[r]: invocation r of process_pending_chunks
  search,             \* the invocation of search_bespoke_memory
  lastCall,           \* the last direct call of store_embeddings, write_faiss_index
                      \* (rows: the vector length of each record) or _load_index
  tx,                 \* the transaction of a store_embeddings call running step by step
  recency,            \* history: the users _load_index returned for since the cache
                      \* was last empty, in the order of their last call
  seen,               \* history: what the caller of the last search that returned got
  breaker,            \* the CircuitBreaker of the gateway client
  calls,              \* calls[c]: invocation c of call_with_breaker
  now,                \* asyncio.get_event_loop().time(), in seconds
  streak              \* history: the failures recorded since the last recorded success

\* The state of the gateway client.
gateway == <<breaker, calls, now, streak>>

vars == <<openai_configured, faiss, chunks, emb, indexFile, metaFile, cache,
          runs, search, lastCall, tx, recency, seen, gateway>>

\* ------------------------------------------------------------ helpers
Min(a, b) == IF a <= b THEN a ELSE b

Absent == <<>>
File(content) == <<content>>
\* A file that exists but does not parse (cut short while it was written).
Torn == <<<<>>, <<>>>>
Readable(file) == Len(file) = 1

RECURSIVE SumSq(_, _)
SumSq(v, n) == IF n = 0 THEN 0 ELSE v[n] * v[n] + SumSq(v, n - 1)

ISqrt(n) == CHOOSE r \in 0..n : r * r <= n /\ (r + 1) * (r + 1) > n

\* faiss.normalize_L2 on one row: v / |v|, a zero row is left as it is.
NormalizeL2(v) ==
  LET norm == ISqrt(SumSq(v, Len(v)))
  IN IF norm = 0 THEN v ELSE [i \in DOMAIN v |-> (v[i] * 10) \div norm]

\* MemoryChunkRow of chunk i of table tbl.
ChunkRow(tbl, i) ==
  [id |-> i, user_id |-> tbl[i], source |-> "upload",
   file_path |-> <<"path", i>>, content |-> <<"text", i>>]

HasEmbedding(table, chunk_id) == \E j \in DOMAIN table : table[j].chunk_id = chunk_id

\* Mutant: the WHERE me.chunk_id IS NULL clause is missing.
FetchAnyChunks(limit) ==
  LET all == [i \in 1..Len(chunks) |-> ChunkRow(chunks, i)]
  IN SubSeq(all, 1, Min(limit, Len(all)))

\* fetch_pending_chunks: the chunks with no embedding row, oldest first, LIMIT limit.
FetchPendingChunks(limit) ==
  LET all == SelectSeq([i \in 1..Len(chunks) |-> ChunkRow(chunks, i)],
                       LAMBDA row : ~HasEmbedding(emb, row.id))
  IN SubSeq(all, 1, Min(limit, Len(all)))

\* Mutant: a plain INSERT, no ON CONFLICT clause.
InsertEmbeddingAlways(table, row, vector) ==
  Append(table, [chunk_id |-> row.id, user_id |-> row.user_id,
                 source |-> row.source, embedding |-> vector])

\* One INSERT ... ON CONFLICT (chunk_id) DO NOTHING.
InsertEmbedding(table, row, vector) ==
  IF HasEmbedding(table, row.id)
  THEN table
  ELSE Append(table, [chunk_id |-> row.id, user_id |-> row.user_id,
                      source |-> row.source, embedding |-> vector])

RECURSIVE InsertAll(_, _, _, _)
InsertAll(table, rows, vectors, n) ==
  IF n = 0 THEN table
  ELSE InsertEmbedding(InsertAll(table, rows, vectors, n - 1), rows[n], vectors[n])

\* Mutant: only too few vectors are rejected.
StoreRaisesTooFew(rows, vectors) == Len(rows) > Len(vectors)

\* if len(rows) != len(vectors): raise ValueError
StoreRaises(rows, vectors) == Len(rows) # Len(vectors)

\* Mutant: only the first pair of the batch is inserted.
StoreEmbeddingsFirstOnly(table, rows, vectors) ==
  IF StoreRaises(rows, vectors) THEN table
  ELSE InsertAll(table, rows, vectors, Min(1, Len(rows)))

\* store_embeddings: the table after the call (one transaction).
StoreEmbeddings(table, rows, vectors) ==
  IF StoreRaises(rows, vectors) THEN table
  ELSE InsertAll(table, rows, vectors, Len(rows))

\* EmbeddingRecord of embedding row e joined with its chunk.
EmbeddingRecord(e) ==
  [chunk_id |-> e.chunk_id, user_id |-> chunks[e.chunk_id],
   source |-> ChunkRow(chunks, e.chunk_id).source,
   file_path |-> ChunkRow(chunks, e.chunk_id).file_path,
   content |-> ChunkRow(chunks, e.chunk_id).content,
   vector |-> e.embedding]

RECURSIVE JoinByCreatedAt(_, _)
JoinByCreatedAt(user_id, n) ==
  IF n = 0 THEN <<>>
  ELSE JoinByCreatedAt(user_id, n - 1) \o
       (IF chunks[n] = user_id
        THEN LET mine == SelectSeq(emb, LAMBDA e : e.chunk_id = n)
             IN [j \in DOMAIN mine |-> EmbeddingRecord(mine[j])]
        ELSE <<>>)

\* Mutant: the WHERE mc.user_id = :user_id clause is missing.
FetchAllEmbeddingsAnyUser(user_id) ==
  LET ids == SelectSeq([i \in 1..Len(chunks) |-> i], LAMBDA i : HasEmbedding(emb, i))
  IN [j \in DOMAIN ids |->
        EmbeddingRecord(CHOOSE e \in {emb[x] : x \in DOMAIN emb} : e.chunk_id = ids[j])]

\* fetch_all_embeddings_for_user: the user's embeddings ordered by created_at.
FetchAllEmbeddingsForUser(user_id) == JoinByCreatedAt(user_id, Len(chunks))

MetaEntry(rec) ==
  [chunk_id |-> rec.chunk_id, source |-> rec.source,
   file_path |-> rec.file_path, content |-> rec.content]

\* np.array(..., dtype="float32") raises on rows of different lengths.
WriteRaises(records) ==
  \E i, j \in DOMAIN records : Len(records[i].vector) # Len(records[j].vector)

\* Mutant: only index.faiss is removed, meta.json stays.
CleanupIndexFileOnly(files, user_id) ==
  [index |-> [files.index EXCEPT ![user_id] = Absent], meta |-> files.meta]

\* _cleanup_index: both files of the user removed.
CleanupIndex(files, user_id) ==
  [index |-> [files.index EXCEPT ![user_id] = Absent],
   meta |-> [files.meta EXCEPT ![user_id] = Absent]]

\* Mutant: the metadata list is written in the reverse of the vectors' order.
WriteFaissIndexReversedMeta(files, user_id, records) ==
  IF ~faiss THEN files
  ELSE IF records = <<>> THEN CleanupIndex(files, user_id)
  ELSE IF WriteRaises(records) THEN files
  ELSE [index |-> [files.index EXCEPT ![user_id] =
                     File([i \in DOMAIN records |-> NormalizeL2(records[i].vector)])],
        meta |-> [files.meta EXCEPT ![user_id] =
                     File([i \in DOMAIN records |->
                             MetaEntry(records[Len(records) + 1 - i])])]]

\* Mutant: the build fails half way, the index of the rows before the first row
\* of another length is already on disk.
WriteFaissIndexMidBuild(files, user_id, records) ==
  IF ~faiss THEN files
  ELSE IF records = <<>> THEN CleanupIndex(files, user_id)
  ELSE IF WriteRaises(records)
  THEN [index |-> [files.index EXCEPT ![user_id] =
                     File(<<NormalizeL2(records[1].vector)>>)],
        meta |-> files.meta]
  ELSE [index |-> [files.index EXCEPT ![user_id] =
                     File([i \in DOMAIN records |-> NormalizeL2(records[i].vector)])],
        meta |-> [files.meta EXCEPT ![user_id] =
                     File([i \in DOMAIN records |-> MetaEntry(records[i])])]]

\* Mutant: the "if faiss is None" return is missing.
WriteFaissIndexAlways(files, user_id, records) ==
  IF records = <<>> THEN CleanupIndex(files, user_id)
  ELSE IF WriteRaises(records) THEN files
  ELSE [index |-> [files.index EXCEPT ![user_id] =
                     File([i \in DOMAIN records |-> NormalizeL2(records[i].vector)])],
        meta |-> [files.meta EXCEPT ![user_id] =
                     File([i \in DOMAIN records |-> MetaEntry(records[i])])]]

\* write_faiss_index: the files after the call.
WriteFaissIndex(files, user_id, records) ==
  IF ~faiss THEN files
  ELSE IF records = <<>> THEN CleanupIndex(files, user_id)
  ELSE IF WriteRaises(records) THEN files
  ELSE [index |-> [files.index EXCEPT ![user_id] =
                     File([i \in DOMAIN records |-> NormalizeL2(records[i].vector)])],
        meta |-> [files.meta EXCEPT ![user_id] =
                     File([i \in DOMAIN records |-> MetaEntry(records[i])])]]

Files == [index |-> indexFile, meta |-> metaFile]

\* How far a write_faiss_index call gets before an I/O error or the end of its
\* process stops it: inside faiss.write_index, between the two files, inside
\* json.dump (after open(meta_path, "w") has emptied the file), or not at all.
Outcomes == {"ok", "index", "between", "meta"}

\* write_faiss_index stopped at outcome: the files it leaves behind.
WriteFaissIndexUpTo(files, user_id, records, outcome) ==
  IF outcome = "ok" \/ ~faiss \/ WriteRaises(records)
  THEN WriteFaissIndex(files, user_id, records)
  ELSE IF records = <<>>
  THEN [index |-> [files.index EXCEPT ![user_id] = Absent], meta |-> files.meta]
  ELSE LET whole == WriteFaissIndex(files, user_id, records)
       IN [index |-> IF outcome = "index"
                     THEN [files.index EXCEPT ![user_id] = Torn] ELSE whole.index,
           meta |-> IF outcome = "meta"
                    THEN [files.meta EXCEPT ![user_id] = Torn] ELSE files.meta]

\* ------------------------------------------------------------ index cache
NoIndex == [index |-> Absent, metadata |-> <<>>]

\* The body of _load_index: (None, []) unless both files exist.
LoadIndex(user_id) ==
  IF ~faiss THEN NoIndex
  ELSE IF indexFile[user_id] = Absent \/ metaFile[user_id] = Absent THEN NoIndex
  ELSE [index |-> indexFile[user_id], metadata |-> metaFile[user_id][1]]

\* faiss.read_index / json.load raise on a file that does not parse.
LoadRaises(user_id) ==
  /\ faiss
  /\ indexFile[user_id] # Absent
  /\ metaFile[user_id] # Absent
  /\ ~Readable(indexFile[user_id]) \/ ~Readable(metaFile[user_id])

CacheHit(c, user_id) == \E i \in DOMAIN c : c[i].user_id = user_id

\* What _load_index(user_id) returns through lru_cache.
CachedLoadIndex(c, user_id) ==
  IF CacheHit(c, user_id)
  THEN (CHOOSE e \in {c[i] : i \in DOMAIN c} : e.user_id = user_id).value
  ELSE LoadIndex(user_id)

\* Mutant: a hit does not refresh the entry, the oldest insertion is evicted.
CacheAfterLoadFifo(c, user_id) ==
  LET entry == [user_id |-> user_id, value |-> CachedLoadIndex(c, user_id)]
  IN IF CacheHit(c, user_id) THEN c
     ELSE IF Len(c) >= CacheMaxSize THEN Append(Tail(c), entry)
     ELSE Append(c, entry)

\* The cache after _load_index(user_id): a hit becomes the most recently used
\* entry, a miss is added and the least recently used entry evicted when full.
CacheAfterLoad(c, user_id) ==
  LET entry == [user_id |-> user_id, value |-> CachedLoadIndex(c, user_id)]
      others == SelectSeq(c, LAMBDA e : e.user_id # user_id)
  IN IF CacheHit(c, user_id) THEN Append(others, entry)
     ELSE IF Len(c) >= CacheMaxSize THEN Append(Tail(c), entry)
     ELSE Append(c, entry)

\* History: user_id becomes the most recently used user.
RecencyAfterLoad(h, user_id) == Append(SelectSeq(h, LAMBDA u : u # user_id), user_id)

\* _invalidate_index_cache: cache_clear() drops every entry.
InvalidateIndexCache(c, user_id) == <<>>

\* ------------------------------------------------------ similarity search
RECURSIVE InnerProduct(_, _, _)
InnerProduct(a, b, n) == IF n = 0 THEN 0 ELSE a[n] * b[n] + InnerProduct(a, b, n - 1)

Score(rows, q, p) == InnerProduct(rows[p + 1], q, Len(q))

\* The best remaining row position (0-based), -1 when none is left.
BestRow(rows, q, taken) ==
  LET left == {p \in 0..(Len(rows) - 1) : \A i \in DOMAIN taken : taken[i] # p}
  IN IF left = {} THEN -1
     ELSE CHOOSE p \in left :
            \A o \in left : \/ Score(rows, q, p) > Score(rows, q, o)
                            \/ (Score(rows, q, p) = Score(rows, q, o) /\ p <= o)

RECURSIVE TopK(_, _, _)
\* index.search(vec, k): k row positions by descending inner product, padded with -1.
TopK(rows, q, k) ==
  IF k = 0 THEN <<>>
  ELSE LET before == TopK(rows, q, k - 1)
       IN Append(before, BestRow(rows, q, before))

MemorySnippet(entry) ==
  [content |-> entry.content, file_path |-> entry.file_path, source |-> entry.source]

\* Mutant: the "idx < 0" test is missing, metadata[-1] is the last entry.
HitsNoSentinel(I, metadata) ==
  LET kept == SelectSeq(I, LAMBDA idx : ~(idx >= Len(metadata)))
  IN [i \in DOMAIN kept |->
        MemorySnippet(metadata[IF kept[i] < 0 THEN Len(metadata) ELSE kept[i] + 1])]

\* The loop over I[0]: sentinel and out-of-range positions are skipped.
Hits(I, metadata) ==
  LET kept == SelectSeq(I, LAMBDA idx : ~(idx < 0 \/ idx >= Len(metadata)))
  IN [i \in DOMAIN kept |-> MemorySnippet(metadata[kept[i] + 1])]

SearchIdle == [pc |-> "idle", user_id |-> "", k |-> 0, loaded |-> NoIndex, result |-> <<>>]

\* search_bespoke_memory up to its await of _embed_query.
SearchStart(user_id, k) ==
  /\ search.pc # "embed_query"
  /\ IF ~openai_configured \/ ~faiss
     THEN /\ search' = [SearchIdle EXCEPT !.pc = "done", !.user_id = user_id]
          /\ UNCHANGED <<cache, recency>>
     ELSE IF ~CacheHit(cache, user_id) /\ LoadRaises(user_id)
     THEN /\ search' = [SearchIdle EXCEPT !.pc = "raised", !.user_id = user_id]
          /\ UNCHANGED <<cache, recency>>
     ELSE LET loaded == CachedLoadIndex(cache, user_id)
          IN /\ cache' = CacheAfterLoad(cache, user_id)
             /\ recency' = RecencyAfterLoad(recency, user_id)
             /\ search' = IF loaded.index = Absent \/ loaded.metadata = <<>>
                           THEN [SearchIdle EXCEPT !.pc = "done", !.user_id = user_id]
                           ELSE [SearchIdle EXCEPT !.pc = "embed_query",
                                                   !.user_id = user_id, !.k = k,
                                                   !.loaded = loaded]
  /\ UNCHANGED <<gateway, seen, openai_configured, faiss, chunks, emb, indexFile, metaFile, runs,
                 lastCall, tx>>

\* _embed_query returned query_vec: normalize, index.search, map the hits.
SearchEmbedded(query_vec) ==
  /\ search.pc = "embed_query"
  /\ search' = [search EXCEPT
                  !.pc = "done", !.k = 0, !.loaded = NoIndex,
                  !.result = Hits(TopK(search.loaded.index[1], NormalizeL2(query_vec),
                                       search.k),
                                  search.loaded.metadata)]
  /\ UNCHANGED <<gateway, seen, openai_configured, faiss, chunks, emb, indexFile, metaFile, cache,
                 runs, lastCall, tx, recency>>

\* _embed_query raised: nothing in search_bespoke_memory catches it.
SearchEmbedFailed ==
  /\ search.pc = "embed_query"
  /\ search' = [search EXCEPT !.pc = "raised", !.k = 0, !.loaded = NoIndex]
  /\ UNCHANGED <<gateway, seen, openai_configured, faiss, chunks, emb, indexFile, metaFile, cache,
                 runs, lastCall, tx, recency>>

\* ---------------------------------------------------- indexing orchestrator
RunIdle ==
  [pc |-> "idle", batch_size |-> 0, rows |-> <<>>, vectors |-> <<>>, todo |-> <<>>,
   records |-> <<>>, processed_total |-> 0, logged |-> <<>>, reported |-> <<>>,
   start_pending |-> {}, start_chunks |-> 0, prev_failed |-> {},
   n |-> 0, pending |-> <<>>]

Active(r) == runs[r].pc \notin {"idle", "done", "failed"}

RowIds(rows) == {rows[i].id : i \in DOMAIN rows}

PendingIds == {i \in 1..Len(chunks) : ~HasEmbedding(emb, i)}

\* Mutant: only the first row's user is rebuilt.
FirstUserOnly(rows, n) == IF n = 0 THEN <<>> ELSE <<rows[1].user_id>>

RECURSIVE DistinctUsers(_, _)
\* The user ids rebuild_indices_for_users visits: first occurrences, in row order.
DistinctUsers(rows, n) ==
  IF n = 0 THEN <<>>
  ELSE LET before == DistinctUsers(rows, n - 1)
       IN IF \E i \in DOMAIN before : before[i] = rows[n].user_id
          THEN before ELSE Append(before, rows[n].user_id)

Frame == UNCHANGED <<gateway, seen, openai_configured, faiss, search, lastCall, tx, recency>>

\* Mutant: the check of settings.enable_openai / openai_api_key is missing.
StartRunNoSettingsCheck(r, batch_size) ==
  /\ ~Active(r)
  /\ runs' = [runs EXCEPT ![r] =
                [RunIdle EXCEPT
                   !.pc = "fetch",
                   !.batch_size = batch_size,
                   !.start_pending = PendingIds,
                   !.start_chunks = Len(chunks),
                   !.prev_failed = IF runs[r].pc = "failed"
                                   THEN RowIds(runs[r].rows) ELSE {}]]
  /\ UNCHANGED <<chunks, emb, indexFile, metaFile, cache>>
  /\ Frame

\* Mutant: process_pending_chunks gives up at once when faiss is missing.
StartRunNeedsFaiss(r, batch_size) ==
  /\ ~Active(r)
  /\ runs' = [runs EXCEPT ![r] =
                [RunIdle EXCEPT
                   !.pc = IF openai_configured /\ faiss THEN "fetch" ELSE "done",
                   !.reported = IF openai_configured /\ faiss THEN <<>> ELSE <<0>>,
                   !.batch_size = IF openai_configured /\ faiss THEN batch_size ELSE 0,
                   !.start_pending = PendingIds,
                   !.start_chunks = Len(chunks),
                   !.prev_failed = IF runs[r].pc = "failed"
                                   THEN RowIds(runs[r].rows) ELSE {}]]
  /\ UNCHANGED <<chunks, emb, indexFile, metaFile, cache>>
  /\ Frame

\* process_pending_chunks(batch_size) is called (again, once the previous
\* invocation has returned or raised): the settings check.
StartRun(r, batch_size) ==
  /\ ~Active(r)
  /\ runs' = [runs EXCEPT ![r] =
                [RunIdle EXCEPT
                   !.pc = IF openai_configured THEN "fetch" ELSE "done",
                   !.reported = IF openai_configured THEN <<>> ELSE <<0>>,
                   !.batch_size = IF openai_configured THEN batch_size ELSE 0,
                   !.start_pending = PendingIds,
                   !.start_chunks = Len(chunks),
                   !.prev_failed = IF runs[r].pc = "failed"
                                   THEN RowIds(runs[r].rows) ELSE {}]]
  /\ UNCHANGED <<chunks, emb, indexFile, metaFile, cache>>
  /\ Frame

\* rows = await fetch_pending_chunks(limit=batch_size); if not rows: break
FetchBatch(r) ==
  /\ runs[r].pc = "fetch"
  /\ LET rows == FetchPendingChunks(runs[r].batch_size)
     IN runs' = [runs EXCEPT ![r] =
                   IF rows = <<>>
                   THEN [@ EXCEPT !.pc = "done", !.batch_size = 0,
                                  !.reported = <<runs[r].processed_total>>]
                   ELSE [@ EXCEPT !.pc = "embed", !.rows = rows]]
  /\ UNCHANGED <<chunks, emb, indexFile, metaFile, cache>>
  /\ Frame

\* vectors = await _embed_documents(embeddings, texts) returned.
EmbedBatch(r, vectors) ==
  /\ runs[r].pc = "embed"
  /\ Len(vectors) = Len(runs[r].rows)
  /\ runs' = [runs EXCEPT ![r] = [@ EXCEPT !.pc = "store", !.vectors = vectors]]
  /\ UNCHANGED <<chunks, emb, indexFile, metaFile, cache>>
  /\ Frame

\* Mutant: the first text's vector is stored before the failure surfaces.
EmbedFailPartial(r) ==
  /\ runs[r].pc = "embed"
  /\ runs' = [runs EXCEPT ![r] = [@ EXCEPT !.pc = "failed", !.batch_size = 0]]
  /\ \E v \in Vecs : emb' = InsertEmbedding(emb, runs[r].rows[1], v)
  /\ UNCHANGED <<chunks, indexFile, metaFile, cache>>
  /\ Frame

\* _embed_documents raised: the exception leaves process_pending_chunks.
EmbedFail(r) ==
  /\ runs[r].pc = "embed"
  /\ runs' = [runs EXCEPT ![r] = [@ EXCEPT !.pc = "failed", !.batch_size = 0]]
  /\ UNCHANGED <<chunks, emb, indexFile, metaFile, cache>>
  /\ Frame

\* await store_embeddings(rows, vectors)
StoreBatch(r) ==
  /\ runs[r].pc = "store"
  /\ emb' = StoreEmbeddings(emb, runs[r].rows, runs[r].vectors)
  /\ runs' = [runs EXCEPT ![r] =
                IF StoreRaises(runs[r].rows, runs[r].vectors)
                THEN [@ EXCEPT !.pc = "failed", !.batch_size = 0]
                ELSE [@ EXCEPT !.pc = "rebuild",
                               !.todo = DistinctUsers(runs[r].rows, Len(runs[r].rows))]]
  /\ UNCHANGED <<chunks, indexFile, metaFile, cache>>
  /\ Frame

\* rebuild_indices_for_users: records = await fetch_all_embeddings_for_user(user_id)
RebuildFetch(r) ==
  /\ runs[r].pc = "rebuild"
  /\ runs' = [runs EXCEPT ![r] =
                [@ EXCEPT !.pc = "write",
                          !.records = FetchAllEmbeddingsForUser(Head(runs[r].todo))]]
  /\ UNCHANGED <<chunks, emb, indexFile, metaFile, cache>>
  /\ Frame

\* What the orchestrator does to the index cache after a rewrite of user_id:
\* nothing, _invalidate_index_cache has no caller.
CacheAfterRebuild(c, user_id) == c

\* Mutant: one is added per batch.
ProcessedAfterOne(processed_total, rows) == processed_total + 1

\* processed_total += len(rows)
ProcessedAfter(processed_total, rows) == processed_total + Len(rows)

\* logger.info("Indexed %d bespoke memory chunks (total=%d)", ...)
LogRecord(rows, processed_total) == <<Len(rows), processed_total>>

\* rebuild_indices_for_users: write_faiss_index(user_id, records), then the next
\* user, and after the last one processed_total += len(rows).
RebuildWrite(r) ==
  /\ runs[r].pc = "write"
  /\ LET user_id == Head(runs[r].todo)
         files == WriteFaissIndex(Files, user_id, runs[r].records)
     IN /\ indexFile' = files.index
        /\ metaFile' = files.meta
        /\ cache' = CacheAfterRebuild(cache, user_id)
        /\ runs' = [runs EXCEPT ![r] =
                      IF faiss /\ WriteRaises(runs[r].records)
                      THEN [@ EXCEPT !.pc = "failed", !.batch_size = 0]
                      ELSE IF Tail(runs[r].todo) # <<>>
                      THEN [@ EXCEPT !.pc = "rebuild", !.todo = Tail(runs[r].todo),
                                     !.records = <<>>]
                      ELSE [@ EXCEPT !.pc = "fetch", !.todo = <<>>, !.records = <<>>,
                                     !.rows = <<>>, !.vectors = <<>>,
                                     !.processed_total = ProcessedAfter(@, runs[r].rows),
                                     !.logged = LogRecord(runs[r].rows,
                                                  ProcessedAfter(runs[r].processed_total,
                                                                 runs[r].rows))]]
  /\ UNCHANGED <<chunks, emb>>
  /\ Frame

\* Upstream ingestion inserts a memory chunk of user_id.
ChunkArrives(user_id) ==
  /\ Len(chunks) < MaxChunks
  /\ chunks' = Append(chunks, user_id)
  /\ UNCHANGED <<emb, indexFile, metaFile, cache, runs>>
  /\ Frame

\* ------------------------------------------------------- circuit breaker
\* CircuitBreaker.__init__
NewBreaker == [failure_count |-> 0, last_failure_time |-> 0, state |-> "CLOSED"]

\* A caller of call_with_breaker: where it is, the state it was let through in
\* and whether it is the call that took the breaker from OPEN to HALF_OPEN.
CallIdle == [pc |-> "idle", entered |-> "none", probe |-> FALSE]

\* Mutant: the recovery timeout counts as passed at once.
ShouldAttemptResetAlways(b, t) == TRUE

\* _should_attempt_reset at loop time t.
ShouldAttemptReset(b, t) == (t - b.last_failure_time) >= RecoveryTimeout

\* Mutant: a success closes a half-open breaker but keeps the failure count.
RecordSuccessKeepsCount(b) ==
  [b EXCEPT !.state = IF b.state = "HALF_OPEN" THEN "CLOSED" ELSE b.state]

\* _record_success
RecordSuccess(b) ==
  [b EXCEPT !.failure_count = 0,
            !.state = IF b.state = "HALF_OPEN" THEN "CLOSED" ELSE b.state]

\* _record_failure at loop time t.
RecordFailure(b, t) ==
  LET count == b.failure_count + 1
  IN [failure_count |-> count,
      last_failure_time |-> t,
      state |-> IF count >= FailureThreshold /\ b.state # "OPEN"
                THEN "OPEN" ELSE b.state]

\* The lock of the breaker is taken and released without an await in between,
\* so each guarded section is one step.  call_with_breaker(func) up to the
\* first await inside func: rejected while OPEN, unless the recovery timeout
\* has passed, otherwise func is running.
CallStart(c) ==
  /\ calls[c].pc # "running"
  /\ IF breaker.state = "OPEN" /\ ~ShouldAttemptReset(breaker, now)
     THEN /\ calls' = [calls EXCEPT ![c] = [pc |-> "rejected", entered |-> breaker.state,
                                                   probe |-> FALSE]]
          /\ UNCHANGED breaker
     ELSE /\ breaker' = IF breaker.state = "OPEN"
                        THEN [breaker EXCEPT !.state = "HALF_OPEN"] ELSE breaker
          /\ calls' = [calls EXCEPT ![c] =
                         [pc |-> "running",
                          entered |-> IF breaker.state = "OPEN"
                                      THEN "HALF_OPEN" ELSE breaker.state,
                          probe |-> breaker.state = "OPEN"]]
  /\ UNCHANGED <<now, streak, seen, openai_configured, faiss, chunks, emb, indexFile,
                 metaFile, cache, runs, search, lastCall, tx, recency>>

\* func returned: _record_success, the result goes to the caller.
CallSucceed(c) ==
  /\ calls[c].pc = "running"
  /\ breaker' = RecordSuccess(breaker)
  /\ calls' = [calls EXCEPT ![c].pc = "returned"]
  /\ streak' = 0
  /\ UNCHANGED <<now, seen, openai_configured, faiss, chunks, emb, indexFile,
                 metaFile, cache, runs, search, lastCall, tx, recency>>

\* func raised: _record_failure, the exception is raised again.
CallFail(c) ==
  /\ calls[c].pc = "running"
  /\ breaker' = RecordFailure(breaker, now)
  /\ calls' = [calls EXCEPT ![c].pc = "raised"]
  /\ streak' = streak + 1
  /\ UNCHANGED <<now, seen, openai_configured, faiss, chunks, emb, indexFile,
                 metaFile, cache, runs, search, lastCall, tx, recency>>

\* Time passes.
Elapse ==
  /\ now + Step <= MaxTicks * Step
  /\ now' = now + Step
  /\ UNCHANGED <<breaker, calls, streak, seen, openai_configured, faiss, chunks, emb,
                 indexFile, metaFile, cache, runs, search, lastCall, tx, recency>>

InitGateway ==
  /\ breaker = NewBreaker
  /\ calls = [c \in Callers |-> CallIdle]
  /\ now = 0
  /\ streak = 0

\* No search has returned yet.
NoAnswer == [valid |-> FALSE, user_id |-> "", persisted |-> NoIndex, result |-> <<>>]

\* ------------------------------------------------------------ the system
NoCall == [op |-> "none", user_id |-> "", rows |-> <<>>, nvec |-> 0, had |-> FALSE,
           raised |-> FALSE, returned |-> NoIndex]

\* No store_embeddings transaction is open.
TxIdle == [pc |-> "none", rows |-> <<>>, vectors |-> <<>>, n |-> 0, pending |-> <<>>]

\* The service process is started again: the modules are imported (faiss present
\* or not), the settings are read once, and nothing held in memory survives;
\* the tables and the files under BASE_INDEX_DIR do.
Restart(configured, available) ==
  /\ openai_configured' = configured
  /\ faiss' = available
  /\ cache' = <<>>
  /\ runs' = [r \in Runs |-> RunIdle]
  /\ search' = SearchIdle
  /\ lastCall' = NoCall
  /\ tx' = TxIdle
  /\ recency' = <<>>
  /\ seen' = NoAnswer
  /\ breaker' = NewBreaker
  /\ calls' = [c \in Callers |-> CallIdle]
  /\ streak' = 0
  /\ UNCHANGED <<chunks, emb, indexFile, metaFile, now>>

Init ==
  /\ openai_configured \in BOOLEAN
  /\ faiss \in BOOLEAN
  /\ chunks = <<>>
  /\ emb = <<>>
  /\ indexFile = [u \in Users |-> Absent]
  /\ metaFile = [u \in Users |-> Absent]
  /\ cache = <<>>
  /\ runs = [r \in Runs |-> RunIdle]
  /\ search = SearchIdle
  /\ lastCall = NoCall
  /\ tx = TxIdle
  /\ recency = <<>>
  /\ seen = NoAnswer
  /\ InitGateway

VecSeqs(n) == [1..n -> Vecs]

Next ==
  \/ \E u \in Users : ChunkArrives(u)
  \/ \E r \in Scheduled, b \in 1..MaxBatch : StartRun(r, b)
  \/ \E r \in Scheduled : FetchBatch(r)
  \/ \E r \in Scheduled : \E vs \in VecSeqs(Len(runs[r].rows)) : EmbedBatch(r, vs)
  \/ \E r \in Scheduled : EmbedFail(r)
  \/ \E r \in Scheduled : StoreBatch(r)
  \/ \E r \in Scheduled : RebuildFetch(r)
  \/ \E r \in Scheduled : RebuildWrite(r)
  \/ \E u \in Users, k \in 1..MaxK : SearchStart(u, k)
  \/ \E q \in Vecs : SearchEmbedded(q)
  \/ SearchEmbedFailed

Spec == Init /\ [][Next]_vars

\* The service over several processes: between the steps of Next the process
\* may be started again, with other settings or another set of installed modules.
NextRestarts ==
  \/ Next
  \/ \E c, a \in BOOLEAN : Restart(c, a)

SpecRestarts == Init /\ [][NextRestarts]_vars

\* ------------------------------------------- the components called directly
\* The chunk table the direct calls work on.
PresetChunks == [i \in 1..MaxChunks |-> IF i % 2 = 1 THEN "alice" ELSE "bob"]

InitCalls ==
  /\ openai_configured = TRUE
  /\ faiss \in BOOLEAN
  /\ chunks = PresetChunks
  /\ emb = <<>>
  /\ indexFile = [u \in Users |-> Absent]
  /\ metaFile = [u \in Users |-> Absent]
  /\ cache = <<>>
  /\ runs = [r \in Runs |-> RunIdle]
  /\ search = SearchIdle
  /\ lastCall = NoCall
  /\ tx = TxIdle
  /\ recency = <<>>
  /\ seen = NoAnswer
  /\ InitGateway

SeqsUpTo(S, n) == UNION {[1..m -> S] : m \in 0..n}

ChunkRows == {ChunkRow(chunks, i) : i \in 1..Len(chunks)}

\* A caller runs store_embeddings(rows, vectors).
StoreCall(rows, vectors) ==
  /\ emb' = StoreEmbeddings(emb, rows, vectors)
  /\ lastCall' = [op |-> "store", user_id |-> "", rows |-> rows, nvec |-> Len(vectors),
                  had |-> \/ \E i \in DOMAIN rows : HasEmbedding(emb, rows[i].id)
                          \/ \E i, j \in DOMAIN rows : i # j /\ rows[i].id = rows[j].id,
                  raised |-> StoreRaises(rows, vectors), returned |-> NoIndex]
  /\ UNCHANGED <<gateway, seen, openai_configured, faiss, chunks, indexFile, metaFile, cache, runs,
                 search, tx, recency>>

NextStore ==
  \E rows \in SeqsUpTo(ChunkRows, MaxRows), vectors \in SeqsUpTo(Vecs, MaxRows) :
    StoreCall(rows, vectors)

SpecStore == InitCalls /\ [][NextStore]_vars

\* ------------------------------- store_embeddings, one await after the other
\* The rows a statement inside the transaction sees: the committed rows and the
\* transaction's own.
TxVisible(table, pending) == table \o pending

\* Mutant: the connection autocommits, every INSERT is persisted at once.
TxExecuteAutocommit(table, pending, row, vector) ==
  [table |-> InsertEmbedding(table, row, vector), pending |-> pending]

\* await conn.execute(insert_stmt, ...) inside "async with engine.begin()": the
\* committed table is untouched, the new row is held by the transaction.
TxExecute(table, pending, row, vector) ==
  LET after == InsertEmbedding(TxVisible(table, pending), row, vector)
  IN [table |-> table, pending |-> SubSeq(after, Len(table) + 1, Len(after))]

\* store_embeddings(rows, vectors) up to engine.begin().
StoreBegin(rows, vectors) ==
  /\ tx.pc # "open"
  /\ tx' = IF StoreRaises(rows, vectors)
           THEN [TxIdle EXCEPT !.pc = "raised"]
           ELSE [TxIdle EXCEPT !.pc = "open", !.rows = rows, !.vectors = vectors]
  /\ UNCHANGED <<gateway, seen, openai_configured, faiss, chunks, emb, indexFile, metaFile, cache,
                 runs, search, lastCall, recency>>

\* The next INSERT of the loop is executed.
StoreExecute ==
  /\ tx.pc = "open"
  /\ tx.n < Len(tx.rows)
  /\ LET done == TxExecute(emb, tx.pending, tx.rows[tx.n + 1], tx.vectors[tx.n + 1])
     IN /\ emb' = done.table
        /\ tx' = [tx EXCEPT !.n = tx.n + 1, !.pending = done.pending]
  /\ UNCHANGED <<gateway, seen, openai_configured, faiss, chunks, indexFile, metaFile, cache,
                 runs, search, lastCall, recency>>

\* The next INSERT raises (connection lost, constraint violated): the context
\* manager of engine.begin() rolls the transaction back and re-raises.
StoreExecuteFail ==
  /\ tx.pc = "open"
  /\ tx.n < Len(tx.rows)
  /\ tx' = [tx EXCEPT !.pc = "rolled_back", !.pending = <<>>, !.vectors = <<>>]
  /\ UNCHANGED <<gateway, seen, openai_configured, faiss, chunks, emb, indexFile, metaFile, cache,
                 runs, search, lastCall, recency>>

\* The loop is over: the context manager of engine.begin() commits.
StoreCommit ==
  /\ tx.pc = "open"
  /\ tx.n = Len(tx.rows)
  /\ emb' = TxVisible(emb, tx.pending)
  /\ tx' = [tx EXCEPT !.pc = "committed", !.pending = <<>>, !.vectors = <<>>]
  /\ UNCHANGED <<gateway, seen, openai_configured, faiss, chunks, indexFile, metaFile, cache,
                 runs, search, lastCall, recency>>

NextTx ==
  \/ \E rows \in SeqsUpTo(ChunkRows, MaxRows), vectors \in SeqsUpTo(Vecs, MaxRows) :
       StoreBegin(rows, vectors)
  \/ StoreExecute
  \/ StoreExecuteFail
  \/ StoreCommit

SpecTx == InitCalls /\ [][NextTx]_vars

EmbeddingRecords ==
  {EmbeddingRecord([chunk_id |-> i, embedding |-> v]) : i \in 1..Len(chunks), v \in Vecs}

\* A caller runs write_faiss_index(user_id, records).
WriteCall(user_id, records) ==
  /\ LET files == WriteFaissIndex(Files, user_id, records)
     IN /\ indexFile' = files.index
        /\ metaFile' = files.meta
  /\ lastCall' = [op |-> "write", user_id |-> user_id,
                  rows |-> [i \in DOMAIN records |-> [dim |-> Len(records[i].vector)]],
                  nvec |-> Len(records),
                  had |-> indexFile[user_id] # Absent /\ metaFile[user_id] # Absent,
                  raised |-> faiss /\ WriteRaises(records), returned |-> NoIndex]
  /\ UNCHANGED <<gateway, seen, openai_configured, faiss, chunks, emb, cache, runs, search, tx,
                 recency>>

\* A vector of another dimension than those of Vecs.
ShortVecs == {<<1>>}

\* Record lists that mix vector lengths.
RaggedRecords ==
  {<<a, [a EXCEPT !.vector = v]>> : a \in EmbeddingRecords, v \in ShortVecs}
  \cup {<<[a EXCEPT !.vector = v], a>> : a \in EmbeddingRecords, v \in ShortVecs}

NextWriter ==
  \/ \E u \in Users, records \in SeqsUpTo(EmbeddingRecords, MaxRecords) :
       WriteCall(u, records)
  \/ \E u \in Users, records \in RaggedRecords : WriteCall(u, records)
  \/ \E a \in BOOLEAN : Restart(TRUE, a)

SpecWriter == InitCalls /\ [][NextWriter]_vars

\* ------------------------------- search over snapshots of interrupted writes
\* The user whose snapshot is rewritten and searched.
Searched == {"alice"}

\* A rebuild (of this or of another process) runs write_faiss_index(user_id,
\* records) and gets as far as outcome.
SnapshotWrite(user_id, records, outcome) ==
  /\ LET files == WriteFaissIndexUpTo(Files, user_id, records, outcome)
     IN /\ indexFile' = files.index
        /\ metaFile' = files.meta
  /\ UNCHANGED <<gateway, seen, openai_configured, faiss, chunks, emb, cache, runs, search, lastCall,
                 tx, recency>>

NextSnapshot ==
  \/ \E u \in Searched, records \in SeqsUpTo(EmbeddingRecords, MaxRecords),
         outcome \in Outcomes : SnapshotWrite(u, records, outcome)
  \/ \E u \in Searched, k \in 1..MaxK : SearchStart(u, k)
  \/ \E q \in Vecs : SearchEmbedded(q)
  \/ SearchEmbedFailed
  \/ \E a \in BOOLEAN : Restart(TRUE, a)

SpecSnapshot == InitCalls /\ [][NextSnapshot]_vars

\* ------------------------------------ the lookup of search_bespoke_memory
\* The rows of a persisted index: normalized vectors.
IndexRows ==
  {[i \in DOMAIN vs |-> NormalizeL2(vs[i])] : vs \in SeqsUpTo(Vecs, MaxEntries) \ {<<>>}}

\* The lists of a persisted meta.json.
Metadatas ==
  {[i \in DOMAIN ids |->
      MetaEntry([chunk_id |-> ids[i],
                 source |-> ChunkRow(PresetChunks, ids[i]).source,
                 file_path |-> ChunkRow(PresetChunks, ids[i]).file_path,
                 content |-> ChunkRow(PresetChunks, ids[i]).content])] :
     ids \in SeqsUpTo(1..MaxChunks, MaxEntries) \ {<<>>}}

\* A search waits for _embed_query, holding a loaded pair: the index and the
\* meta.json of the same write, or of two writes when the later one stopped
\* between the two files.
InitLookup ==
  /\ openai_configured = TRUE
  /\ faiss = TRUE
  /\ chunks = PresetChunks
  /\ emb = <<>>
  /\ indexFile = [u \in Users |-> Absent]
  /\ metaFile = [u \in Users |-> Absent]
  /\ cache = <<>>
  /\ runs = [r \in Runs |-> RunIdle]
  /\ search \in {[SearchIdle EXCEPT !.pc = "embed_query", !.user_id = u, !.k = k,
                                    !.loaded = [index |-> File(rows), metadata |-> md]] :
                    u \in Users, k \in 1..MaxK, rows \in IndexRows, md \in Metadatas}
  /\ lastCall = NoCall
  /\ tx = TxIdle
  /\ recency = <<>>
  /\ seen = NoAnswer
  /\ InitGateway

NextLookup ==
  \/ \E q \in Vecs : SearchEmbedded(q)
  \/ SearchEmbedFailed

SpecLookup == InitLookup /\ [][NextLookup]_vars

\* ------------------------------------------- _load_index called directly
\* The users _load_index is called for: one more than the cache can hold.
CacheUsers == 1..(CacheMaxSize + 1)

\* The users whose entries are looked up again and whose snapshots are rewritten.
Probed == {1}

\* What a rebuild hands to write_faiss_index for a probed user: nothing, or one
\* record.
SnapshotInputs == {<<>>} \cup {<<rec>> : rec \in EmbeddingRecords}

InitCache ==
  /\ openai_configured = TRUE
  /\ faiss = TRUE
  /\ chunks = <<1>>
  /\ emb = <<>>
  /\ indexFile = [u \in CacheUsers |-> Absent]
  /\ metaFile = [u \in CacheUsers |-> Absent]
  /\ cache = <<>>
  /\ runs = [r \in Runs |-> RunIdle]
  /\ search = SearchIdle
  /\ lastCall = NoCall
  /\ tx = TxIdle
  /\ recency = <<>>
  /\ seen = NoAnswer
  /\ InitGateway

\* A caller runs _load_index(user_id).
LoadCall(user_id) ==
  /\ IF ~CacheHit(cache, user_id) /\ LoadRaises(user_id)
     THEN /\ UNCHANGED <<cache, recency>>
          /\ lastCall' = [NoCall EXCEPT !.op = "load", !.user_id = user_id,
                                        !.raised = TRUE]
     ELSE /\ cache' = CacheAfterLoad(cache, user_id)
          /\ recency' = RecencyAfterLoad(recency, user_id)
          /\ lastCall' = [op |-> "load", user_id |-> user_id, rows |-> <<>>, nvec |-> 0,
                          had |-> CacheHit(cache, user_id), raised |-> FALSE,
                          returned |-> CachedLoadIndex(cache, user_id)]
  /\ UNCHANGED <<gateway, seen, openai_configured, faiss, chunks, emb, indexFile, metaFile, runs,
                 search, tx>>

\* A caller runs _invalidate_index_cache(user_id).
InvalidateCall(user_id) ==
  /\ cache' = InvalidateIndexCache(cache, user_id)
  /\ recency' = <<>>
  /\ lastCall' = [NoCall EXCEPT !.op = "invalidate", !.user_id = user_id]
  /\ UNCHANGED <<gateway, seen, openai_configured, faiss, chunks, emb, indexFile, metaFile, runs,
                 search, tx>>

\* The users outside Probed are alike (none has a snapshot): of those not in
\* the cache only the one with the smallest id is loaded next.
NextUnprobed(c) ==
  LET out == {u \in CacheUsers \ Probed : ~CacheHit(c, u)}
  IN {u \in out : \A v \in out : u <= v}

NextCache ==
  \/ \E u \in Probed \cup NextUnprobed(cache) : LoadCall(u)
  \/ \E u \in Probed : InvalidateCall(u)
  \/ \E u \in Probed, records \in SnapshotInputs : WriteCall(u, records)

SpecCache == InitCache /\ [][NextCache]_vars

\* ---------------------------------------------------------- the drain loop
\* One run at a time, the generator, the store and the writer healthy; chunks
\* arrive only between two runs.
InitDrain == Init /\ openai_configured

\* The steps of run r after the call: each await of the loop completes.
DrainStep(r) ==
  \/ FetchBatch(r)
  \/ \E vs \in VecSeqs(Len(runs[r].rows)) : EmbedBatch(r, vs)
  \/ StoreBatch(r)
  \/ RebuildFetch(r)
  \/ RebuildWrite(r)

NextDrain ==
  \/ \E u \in Users : (\A r \in Scheduled : ~Active(r)) /\ ChunkArrives(u)
  \/ \E r \in Scheduled, b \in 1..MaxBatch : StartRun(r, b)
  \/ \E r \in Scheduled : DrainStep(r)

\* The event loop resumes a run whose awaited call has completed.
SpecDrain ==
  InitDrain /\ [][NextDrain]_vars /\ \A r \in Scheduled : WF_vars(DrainStep(r))

\* ------------------------------------------------------- failing rebuilds
\* Mutant: a failed rebuild takes the rows of the batch out of the table again.
RebuildFetchFailUndoStore(r) ==
  /\ runs[r].pc = "rebuild"
  /\ runs' = [runs EXCEPT ![r] = [@ EXCEPT !.pc = "failed", !.batch_size = 0]]
  /\ emb' = SelectSeq(emb, LAMBDA e : e.chunk_id \notin RowIds(runs[r].rows))
  /\ UNCHANGED <<chunks, indexFile, metaFile, cache>>
  /\ Frame

\* rebuild_indices_for_users: fetch_all_embeddings_for_user raises (the
\* database is unreachable); the exception leaves process_pending_chunks.
RebuildFetchFail(r) ==
  /\ runs[r].pc = "rebuild"
  /\ runs' = [runs EXCEPT ![r] = [@ EXCEPT !.pc = "failed", !.batch_size = 0]]
  /\ UNCHANGED <<chunks, emb, indexFile, metaFile, cache>>
  /\ Frame

\* rebuild_indices_for_users: write_faiss_index raises an I/O error at outcome
\* (disk full, directory not writable); the exception leaves
\* process_pending_chunks with the files as the write left them.
RebuildWriteFail(r, outcome) ==
  /\ runs[r].pc = "write"
  /\ faiss
  /\ runs[r].records # <<>>
  /\ outcome # "ok"
  /\ LET files == WriteFaissIndexUpTo(Files, Head(runs[r].todo), runs[r].records, outcome)
     IN /\ indexFile' = files.index
        /\ metaFile' = files.meta
  /\ runs' = [runs EXCEPT ![r] = [@ EXCEPT !.pc = "failed", !.batch_size = 0]]
  /\ UNCHANGED <<chunks, emb, cache>>
  /\ Frame

NextGap ==
  \/ \E u \in Users : ChunkArrives(u)
  \/ \E r \in Scheduled, b \in 1..MaxBatch : StartRun(r, b)
  \/ \E r \in Scheduled : DrainStep(r)
  \/ \E r \in Scheduled : RebuildFetchFail(r)
  \/ \E r \in Scheduled, outcome \in Outcomes : RebuildWriteFail(r, outcome)

SpecGap == Init /\ [][NextGap]_vars

\* ---------------------------- searches and an indexing run in one event loop
NextShared ==
  \/ NextGap
  \/ \E u \in Users, k \in 1..MaxK : SearchStart(u, k)
  \/ \E q \in Vecs : SearchEmbedded(q)
  \/ SearchEmbedFailed

SpecShared == Init /\ [][NextShared]_vars

\* ------------------------------------------------------ overlapping runs
\* Mutant: memory_chunk_embeddings has no unique index on chunk_id, an INSERT
\* never waits for another transaction.
InsertBlockedNever(r, chunk_id) == FALSE

\* ON CONFLICT (chunk_id): an INSERT of a chunk_id that another open
\* transaction has inserted waits until that transaction has ended.
InsertBlocked(r, chunk_id) ==
  \E o \in Runs \ {r} :
    \E i \in DOMAIN runs[o].pending : runs[o].pending[i].chunk_id = chunk_id

\* store_embeddings of run r: the next INSERT of the loop is executed.
RunStoreExecute(r) ==
  /\ runs[r].pc = "store"
  /\ runs[r].n < Len(runs[r].rows)
  /\ ~InsertBlocked(r, runs[r].rows[runs[r].n + 1].id)
  /\ LET done == TxExecute(emb, runs[r].pending, runs[r].rows[runs[r].n + 1],
                           runs[r].vectors[runs[r].n + 1])
     IN /\ emb' = done.table
        /\ runs' = [runs EXCEPT ![r] = [@ EXCEPT !.n = @ + 1, !.pending = done.pending]]
  /\ UNCHANGED <<chunks, indexFile, metaFile, cache>>
  /\ Frame

\* store_embeddings of run r: the loop is over, engine.begin() commits.
RunStoreCommit(r) ==
  /\ runs[r].pc = "store"
  /\ runs[r].n = Len(runs[r].rows)
  /\ emb' = TxVisible(emb, runs[r].pending)
  /\ runs' = [runs EXCEPT ![r] =
                [@ EXCEPT !.pc = "rebuild", !.n = 0, !.pending = <<>>,
                          !.todo = DistinctUsers(runs[r].rows, Len(runs[r].rows))]]
  /\ UNCHANGED <<chunks, indexFile, metaFile, cache>>
  /\ Frame

\* The job and the endpoint each call process_pending_chunks once; their runs
\* may overlap at every await.
NextOverlap ==
  \/ \E r \in Runs, b \in 1..MaxBatch : runs[r].pc = "idle" /\ StartRun(r, b)
  \/ \E r \in Runs : FetchBatch(r)
  \/ \E r \in Runs, v \in Vecs : EmbedBatch(r, [i \in 1..Len(runs[r].rows) |-> v])
  \/ \E r \in Runs : RunStoreExecute(r)
  \/ \E r \in Runs : RunStoreCommit(r)
  \/ \E r \in Runs : RebuildFetch(r)
  \/ \E r \in Runs : RebuildWrite(r)

SpecOverlap == InitCalls /\ [][NextOverlap]_vars

\* --------------------------------- repeated searches over a full index cache
\* The query vector and the k of the repeated searches.
QueryVec == <<3, 4>>
OrderK == MaxK

\* Two snapshots of the same two chunks whose rankings for QueryVec differ.
OrderInputs ==
  {recs \in [1..2 -> EmbeddingRecords] :
     /\ recs[1].chunk_id = 1
     /\ recs[2].chunk_id = 2
     /\ recs[1].vector # recs[2].vector}

InitOrder ==
  /\ openai_configured = TRUE
  /\ faiss = TRUE
  /\ chunks = <<1, 1>>
  /\ emb = <<>>
  /\ indexFile = [u \in CacheUsers |-> Absent]
  /\ metaFile = [u \in CacheUsers |-> Absent]
  /\ cache = <<>>
  /\ runs = [r \in Runs |-> RunIdle]
  /\ search = SearchIdle
  /\ lastCall = NoCall
  /\ tx = TxIdle
  /\ recency = <<>>
  /\ seen = NoAnswer
  /\ InitGateway

\* return hits: the caller of search_bespoke_memory has the result; the
\* history keeps it with the pair persisted for the user at that moment.
SearchReturned ==
  /\ search.pc = "done"
  /\ seen' = [valid |-> TRUE, user_id |-> search.user_id,
              persisted |-> LoadIndex(search.user_id), result |-> search.result]
  /\ search' = SearchIdle
  /\ UNCHANGED <<gateway, openai_configured, faiss, chunks, emb, indexFile, metaFile,
                 cache, runs, lastCall, tx, recency>>

\* The snapshot of a probed user is rewritten between two searches, never
\* during one; the searches of the other users fill the cache.
NextOrder ==
  \/ \E u \in Probed, records \in OrderInputs :
       search.pc = "idle" /\ WriteCall(u, records)
  \/ \E u \in Probed : search.pc = "idle" /\ SearchStart(u, OrderK)
  \/ SearchEmbedded(QueryVec)
  \/ SearchReturned
  \/ \E u \in NextUnprobed(cache) : search.pc = "idle" /\ LoadCall(u)

SpecOrder == InitOrder /\ [][NextOrder]_vars

\* ----------------------------------------------- the gateway client alone
InitBreaker == InitCalls /\ faiss

NextBreaker ==
  \/ \E c \in Callers : CallStart(c)
  \/ \E c \in Callers : CallSucceed(c)
  \/ \E c \in Callers : CallFail(c)
  \/ Elapse

SpecBreaker == InitBreaker /\ [][NextBreaker]_vars

\* ================================================================ claims
EmbeddedAtStart(r) == runs[r].start_chunks - Cardinality(runs[r].start_pending)

\* The snapshot of user u holds one vector and one metadata entry for each of
\* u's embedding rows, and nothing else.
SnapshotComplete(u) ==
  LET mine == SelectSeq(emb, LAMBDA e : chunks[e.chunk_id] = u)
  IN /\ indexFile[u] # Absent
     /\ metaFile[u] # Absent
     /\ Len(indexFile[u][1]) = Len(mine)
     /\ Len(metaFile[u][1]) = Len(mine)
     /\ \A j \in DOMAIN mine :
          \E i \in DOMAIN metaFile[u][1] :
            /\ i \in DOMAIN indexFile[u][1]
            /\ metaFile[u][1][i].chunk_id = mine[j].chunk_id
            /\ indexFile[u][1][i] = NormalizeL2(mine[j].embedding)

\* C1 (as claimed): cache freshness.  A user's cached (index, metadata) pair is
\* dropped whenever the user's snapshot is rewritten, so a search that starts
\* works on the (index, metadata) pair the user's files hold at that moment,
\* never on a pair loaded before the last rewrite: it goes on to the lookup with
\* exactly the persisted pair, and returns early only when no snapshot is
\* persisted.
C1_CacheFreshness ==
  [][(/\ openai_configured' /\ faiss'
      /\ search.pc # "embed_query" /\ search' # search /\ search'.pc # "idle") =>
       IF search'.pc = "embed_query"
       THEN search'.loaded = LoadIndex(search'.user_id)
       ELSE LoadIndex(search'.user_id).index = Absent
            \/ LoadIndex(search'.user_id).metadata = <<>>]_vars

\* C2: after any sequence of store_embeddings calls (the same chunk twice in one
\* call, in different calls, a call repeated after a length-mismatch failure)
\* the table holds at most one embedding row per chunk_id.
C2_AtMostOneRowPerChunk ==
  \A c \in 1..Len(chunks) : Cardinality({j \in DOMAIN emb : emb[j].chunk_id = c}) <= 1

C2_Witness ==
  /\ lastCall.op = "store"
  /\ lastCall.had
  /\ ~lastCall.raised
  /\ \E i, j \in DOMAIN lastCall.rows : i # j /\ lastCall.rows[i].id = lastCall.rows[j].id
  /\ \A i \in DOMAIN lastCall.rows : HasEmbedding(emb, lastCall.rows[i].id)

\* C3: when the Embedding Generator call of a batch fails, the step that aborts
\* the run stores no embedding row, rewrites no snapshot file, and every chunk of
\* the batch is still without an embedding (pending) afterwards.
C3_EmbedFailureAllOrNothing ==
  [][\A r \in Runs :
       (runs[r].pc = "embed" /\ runs'[r].pc = "failed") =>
         /\ emb' = emb
         /\ indexFile' = indexFile
         /\ metaFile' = metaFile
         /\ \A c \in RowIds(runs[r].rows) : ~HasEmbedding(emb', c)]_vars

C3_Witness ==
  /\ runs[1].pc = "failed"
  /\ Len(runs[1].rows) = 2
  /\ \A c \in RowIds(runs[1].rows) : c \in PendingIds

\* C4: a run that follows a run which failed in the Embedding Generator on batch
\* B, starts with exactly B pending, sees no new chunk and returns normally, has
\* embedded every chunk of B and returns the size of B.
C4_RetryAfterFailure ==
  \A r \in Runs :
    (/\ runs[r].pc = "done"
     /\ openai_configured
     /\ runs[r].prev_failed # {}
     /\ runs[r].start_pending = runs[r].prev_failed
     /\ runs[r].start_chunks = Len(chunks))
    => /\ runs[r].reported = <<Cardinality(runs[r].prev_failed)>>
       /\ \A c \in runs[r].prev_failed : HasEmbedding(emb, c)

C4_Witness ==
  /\ runs[1].pc = "done"
  /\ Cardinality(runs[1].prev_failed) = 2
  /\ runs[1].start_pending = runs[1].prev_failed
  /\ runs[1].start_chunks = Len(chunks)
  /\ runs[1].reported = <<2>>

\* C5: isolation.  Every metadata entry of user A's snapshot is a chunk whose
\* user_id is A, and every snippet a search for A returns is the content of a
\* chunk of A.
C5_Isolation ==
  /\ \A u \in Users :
       metaFile[u] # Absent =>
         \A i \in DOMAIN metaFile[u][1] : chunks[metaFile[u][1][i].chunk_id] = u
  /\ \A i \in DOMAIN search.loaded.metadata :
       chunks[search.loaded.metadata[i].chunk_id] = search.user_id
  /\ \A i \in DOMAIN search.result :
       chunks[search.result[i].content[2]] = search.user_id

C5_Witness ==
  /\ search.pc = "done"
  /\ search.result # <<>>
  /\ \E u \in Users : u # search.user_id /\ metaFile[u] # Absent

\* C6: when a run returns normally with the index backend available, every user
\* that had a chunk pending at the start of the run has a snapshot holding
\* exactly one vector for each of the user's embedding rows; and when no chunk
\* arrived during the run it returns the number of chunks pending at its start.
C6_SnapshotCompleteAfterRun ==
  \A r \in Runs :
    (runs[r].pc = "done" /\ openai_configured /\ faiss)
    => /\ \A c \in runs[r].start_pending : SnapshotComplete(chunks[c])
       /\ runs[r].start_chunks = Len(chunks)
            => runs[r].reported = <<Cardinality(runs[r].start_pending)>>

C6_Witness ==
  /\ runs[1].pc = "done"
  /\ faiss
  /\ runs[1].start_pending = {1, 2}
  /\ chunks[1] # chunks[2]
  /\ runs[1].reported = <<2>>
  /\ Len(indexFile[chunks[1]][1]) = 1
  /\ Len(indexFile[chunks[2]][1]) = 1

\* C7: with no chunk pending, the steps of a run (the call, and the fetch that
\* finds nothing) leave the embedding rows, every snapshot file and the index
\* cache as they were, and the run returns 0.
C7_NothingPending ==
  [][\A r \in Runs :
       (/\ openai_configured
        /\ runs'[r] # runs[r]
        /\ runs'[r].pc # "idle"
        /\ runs[r].pc \in {"idle", "done", "failed", "fetch"}
        /\ PendingIds = {}
        /\ runs[r].pc = "fetch" => runs[r].processed_total = 0)
       => /\ UNCHANGED <<emb, indexFile, metaFile, cache>>
          /\ runs[r].pc = "fetch" =>
               (runs'[r].pc = "done" /\ runs'[r].reported = <<0>>)]_vars

C7_Witness ==
  /\ runs[1].pc = "done"
  /\ openai_configured
  /\ runs[1].start_pending = {}
  /\ runs[1].start_chunks = Len(chunks)
  /\ runs[1].reported = <<0>>
  /\ \E u \in Users : indexFile[u] # Absent
  /\ cache # <<>>

\* C8 (as claimed): a run whose later batch fails after earlier batches succeeded
\* still reports a count, the number of chunks of the earlier batches.
C8_FailedRunReportsEarlierBatches ==
  \A r \in Runs :
    (runs[r].pc = "failed" /\ runs[r].processed_total > 0)
    => runs[r].reported = <<runs[r].processed_total>>

\* C8 (amended): a run returns a count only when it returns normally, and the
\* count is the number of chunks it embedded.  A run that fails in the Embedding
\* Generator call of a batch returns no count at all, the exception leaves it:
\* the chunks of its earlier batches stay embedded and are counted only in the
\* total of its per-batch log record, the failed batch adds nothing to that
\* total, and the failed batch's chunks are still pending.
C8_ProcessedCountUnderFailure ==
  \A r \in Runs :
    LET run == runs[r]
        byRun == Len(emb) - EmbeddedAtStart(r)
    IN /\ run.pc = "done" => run.reported = <<byRun>>
       /\ run.pc = "failed" =>
            /\ run.reported = <<>>
            /\ run.processed_total = byRun
            /\ run.processed_total > 0 => run.logged[2] = byRun
            /\ run.rows # <<>>
            /\ \A c \in RowIds(run.rows) : c \in PendingIds

C8_Witness ==
  /\ runs[1].pc = "failed"
  /\ runs[1].processed_total > 0
  /\ runs[1].logged = <<1, 1>>

C10_EmptyWriteDeletes ==
  [][(lastCall'.op = "write" /\ lastCall'.rows = <<>> /\ faiss) =>
       /\ indexFile'[lastCall'.user_id] = Absent
       /\ metaFile'[lastCall'.user_id] = Absent
       /\ \A v \in Users \ {lastCall'.user_id} :
            indexFile'[v] = indexFile[v] /\ metaFile'[v] = metaFile[v]
       /\ \A v \in Users : indexFile'[v] # File(<<>>)]_vars

C10_Witness ==
  /\ lastCall.op = "write"
  /\ lastCall.rows = <<>>
  /\ lastCall.had
  /\ faiss
  /\ indexFile[lastCall.user_id] = Absent
  /\ metaFile[lastCall.user_id] = Absent
  /\ \E v \in Users : indexFile[v] # Absent

\* C11: degraded write.  With the index backend unavailable (faiss is None),
\* write_faiss_index(user_id, records) for empty and non-empty records touches
\* no file, so a snapshot persisted earlier stays exactly as it was, and the
\* call raises nothing.
C11_DegradedWrite ==
  [][(lastCall'.op = "write" /\ ~faiss') =>
       /\ indexFile' = indexFile
       /\ metaFile' = metaFile
       /\ ~lastCall'.raised]_vars

C11_Witness ==
  /\ ~faiss
  /\ lastCall.op = "write"
  /\ lastCall.rows = <<>>
  /\ lastCall.had
  /\ indexFile[lastCall.user_id] # Absent
  /\ metaFile[lastCall.user_id] # Absent

\* C12: degraded mode end to end.  In a process without the index backend no
\* step writes or removes a snapshot file; a run of process_pending_chunks that
\* returns has embedded every chunk that was pending at its start and returns
\* the number of chunks it embedded; and a search never reaches the generator
\* or raises, it returns the empty list, also for a user whose snapshot an
\* earlier process wrote.
C12_DegradedEndToEnd ==
  [][(~faiss /\ ~faiss') =>
       /\ indexFile' = indexFile
       /\ metaFile' = metaFile
       /\ \A r \in Runs :
            (runs[r].pc = "done" /\ openai_configured) =>
              /\ \A c \in runs[r].start_pending : HasEmbedding(emb, c)
              /\ runs[r].reported = <<Len(emb) - EmbeddedAtStart(r)>>
              /\ runs[r].start_chunks = Len(chunks) =>
                   runs[r].reported = <<Cardinality(runs[r].start_pending)>>
       /\ search.pc \in {"idle", "done"}
       /\ search.result = <<>>]_vars

C12_Witness ==
  /\ ~faiss
  /\ openai_configured
  /\ runs[1].pc = "done"
  /\ runs[1].reported = <<1>>
  /\ Len(emb) = 2
  /\ search.pc = "done"
  /\ indexFile[search.user_id] # Absent
  /\ Len(indexFile[search.user_id][1]) = 1

\* C13: configuration unavailable.  In a process whose embedding backend is
\* disabled or has no API key, process_pending_chunks returns 0 at once: it
\* never fetches, embeds, stores or rewrites, so no step changes the embedding
\* rows (pending chunks stay pending), a snapshot file or the index cache; and
\* search returns the empty list.  Neither of them raises.
C13_ConfigurationUnavailable ==
  [][(~openai_configured /\ ~openai_configured') =>
       /\ UNCHANGED <<emb, indexFile, metaFile, cache>>
       /\ \A r \in Runs :
            /\ runs[r].pc \in {"idle", "done"}
            /\ runs[r].pc = "done" => runs[r].reported = <<0>>
       /\ search.pc \in {"idle", "done"}
       /\ search.result = <<>>]_vars

C13_Witness ==
  /\ ~openai_configured
  /\ faiss
  /\ PendingIds # {}
  /\ runs[1].pc = "done"
  /\ runs[1].reported = <<0>>
  /\ search.pc = "done"
  /\ chunks[1] = search.user_id
  /\ indexFile[search.user_id] # Absent
  /\ metaFile[search.user_id] # Absent

\* C14: store_embeddings(rows, vectors) with len(rows) # len(vectors) raises the
\* length-mismatch error before anything is persisted: the embedding rows after
\* the call are exactly the rows before it.
C14_LengthMismatch ==
  [][(lastCall'.op = "store" /\ Len(lastCall'.rows) # lastCall'.nvec) =>
       /\ lastCall'.raised
       /\ emb' = emb]_vars

C14_Witness ==
  /\ lastCall.op = "store"
  /\ lastCall.raised
  /\ Len(lastCall.rows) = 1
  /\ lastCall.nvec = 2
  /\ emb # <<>>
  /\ ~HasEmbedding(emb, lastCall.rows[1].id)

\* C15: store atomicity.  The committed embedding rows (what every other reader
\* sees) change only in the step that commits a store_embeddings call, and after
\* that step every chunk of the call's batch has an embedding (the rows are
\* those of the whole batch stored in one step); a call one of
\* whose inserts fails leaves the committed rows exactly as they were when it
\* began, also when earlier inserts of the batch had succeeded.
C15_StoreAtomicity ==
  [][/\ emb' # emb =>
          /\ tx.pc = "open"
          /\ tx'.pc = "committed"
     /\ (tx.pc = "open" /\ tx'.pc = "committed") =>
          /\ \A i \in DOMAIN tx.rows : HasEmbedding(emb', tx.rows[i].id)
          /\ emb' = StoreEmbeddings(emb, tx.rows, tx.vectors)
     /\ (tx.pc = "open" /\ tx'.pc = "rolled_back") =>
          /\ emb' = emb
          /\ \A i \in DOMAIN tx.pending :
               ~HasEmbedding(emb', tx.pending[i].chunk_id)]_vars

C15_Witness ==
  /\ tx.pc = "rolled_back"
  /\ Len(tx.rows) = 2
  /\ tx.n = 1
  /\ tx.rows[1].id # tx.rows[2].id
  /\ ~HasEmbedding(emb, tx.rows[1].id)
  /\ emb # <<>>

\* C16: dimension invariant.  write_faiss_index(user_id, records) with records
\* whose vectors differ in length raises before anything is persisted: the
\* user's index.faiss and meta.json (and every other user's) are after the call
\* what they were before it.
C16_DimensionInvariant ==
  [][(/\ lastCall'.op = "write"
      /\ faiss'
      /\ \E i, j \in DOMAIN lastCall'.rows :
           lastCall'.rows[i].dim # lastCall'.rows[j].dim) =>
       /\ lastCall'.raised
       /\ indexFile' = indexFile
       /\ metaFile' = metaFile]_vars

C16_Witness ==
  /\ faiss
  /\ lastCall.op = "write"
  /\ lastCall.raised
  /\ lastCall.had
  /\ Len(lastCall.rows) = 2
  /\ lastCall.rows[1].dim = 2
  /\ lastCall.rows[2].dim = 1
  /\ Len(indexFile[lastCall.user_id][1]) = 1
  /\ Len(metaFile[lastCall.user_id][1]) = 1

\* The last n elements of seq (all of it when it is shorter).
LastN(seq, n) == IF Len(seq) <= n THEN seq ELSE SubSeq(seq, Len(seq) - n + 1, Len(seq))

\* C17: index cache bound.  After any sequence of _load_index and
\* _invalidate_index_cache calls the cache holds at most CacheMaxSize (32)
\* entries, one per user, and they are the entries of the users most recently
\* loaded, so a miss on a full cache evicts the least recently used user and
\* only that one; a call for a cached user returns the cached pair and leaves it
\* cached, whatever the files hold by then.
C17_CacheBound ==
  [][/\ Len(cache) <= CacheMaxSize
     /\ \A i, j \in DOMAIN cache : i # j => cache[i].user_id # cache[j].user_id
     /\ [i \in DOMAIN cache |-> cache[i].user_id] = LastN(recency, CacheMaxSize)
     /\ lastCall'.op = "load" =>
          LET u == lastCall'.user_id
              cached == {i \in DOMAIN cache : cache[i].user_id = u}
          IN /\ \A i \in cached :
                  /\ lastCall'.returned = cache[i].value
                  /\ \E j \in DOMAIN cache' : cache'[j] = cache[i]
             /\ (cached = {} /\ Len(cache) = CacheMaxSize) =>
                  /\ {cache'[i].user_id : i \in DOMAIN cache'} =
                       ({cache[i].user_id : i \in DOMAIN cache} \ {recency[Len(recency) - CacheMaxSize + 1]})
                         \cup {u}
                  /\ Len(cache') = CacheMaxSize
             /\ cached = {} => lastCall'.returned = LoadIndex(u)]_vars

C17_Witness ==
  /\ Len(cache) = CacheMaxSize
  /\ lastCall.op = "load"
  /\ ~lastCall.had
  /\ lastCall.user_id = CacheMaxSize + 1
  /\ \A i \in DOMAIN cache : cache[i].user_id # 2
  /\ \E i \in DOMAIN cache : cache[i].user_id = 1 /\ cache[i].value # LoadIndex(1)

\* The snapshot of user u is missing or malformed: a file is absent or does
\* not parse.
Malformed(u) == ~(Readable(indexFile[u]) /\ Readable(metaFile[u]))

\* C18 (as claimed): a search that has to load the snapshot of a user for whom
\* neither file exists, or only one of index.faiss and meta.json exists, or one
\* of them is unreadable, treats it as "no snapshot": it returns the empty list
\* and does not raise.
C18_MalformedSnapshot ==
  [][(/\ openai_configured' /\ faiss'
      /\ search.pc # "embed_query" /\ search' # search /\ search'.pc # "idle"
      /\ ~CacheHit(cache, search'.user_id)
      /\ Malformed(search'.user_id)) =>
       /\ search'.pc = "done"
       /\ search'.result = <<>>]_vars

\* C19 (as claimed): no failure on the search path reaches the caller.  A
\* search never ends by raising: when the Embedding Generator call for the
\* query fails, or the snapshot cannot be loaded, it returns the empty list.
C19_SearchErrorsNeverPropagate ==
  search.pc # "raised"

\* The places of I that hold a row position with a metadata entry.
ValidPlaces(I, n) == {i \in DOMAIN I : I[i] >= 0 /\ I[i] < n}

\* C20: search result mapping.  For a loaded snapshot with n metadata entries
\* and any k, the search returns the snippets of the row positions the index
\* lookup produced, in the lookup's order, leaving out the -1 "no match"
\* positions and the positions >= n; so it returns at most min(k, n) snippets,
\* and with k >= n (index and metadata of equal length) it returns all n
\* entries, without an error.
C20_ResultMapping ==
  [][(search.pc = "embed_query" /\ search'.pc = "done") =>
       LET metadata == search.loaded.metadata
           rows == search.loaded.index[1]
           n == Len(metadata)
           result == search'.result
       IN /\ \E q \in Vecs :
               LET I == TopK(rows, NormalizeL2(q), search.k)
                   valid == ValidPlaces(I, n)
               IN /\ Len(result) = Cardinality(valid)
                  /\ \A j \in DOMAIN result :
                       \E i \in valid :
                         /\ Cardinality({x \in valid : x < i}) = j - 1
                         /\ result[j].content = metadata[I[i] + 1].content
                         /\ result[j].file_path = metadata[I[i] + 1].file_path
                         /\ result[j].source = metadata[I[i] + 1].source
          /\ Len(result) <= Min(search.k, n)
          /\ (Len(rows) = n /\ search.k >= n) =>
               /\ Len(result) = n
               /\ \A m \in DOMAIN metadata :
                    \E j \in DOMAIN result : result[j].content = metadata[m].content]_vars

C20_Witness ==
  /\ search.pc = "done"
  /\ Len(search.result) = 2
  /\ search.result[1].content = <<"text", 2>>
  /\ search.result[2].content = <<"text", 1>>

\* C21 (as claimed): order determinism.  Two searches of one user with the same
\* query vector and the same k, made while the user's persisted index.faiss and
\* meta.json hold the same contents, return the same snippets in the same
\* order, whether the pair came from the index cache or was loaded from the
\* files after the entry had been evicted.
C21_OrderDeterminism ==
  (/\ search.pc = "done"
   /\ seen.valid
   /\ seen.user_id = search.user_id
   /\ seen.persisted = LoadIndex(search.user_id))
  => search.result = seen.result

\* C22: concurrent-safe idempotent insert.  When the runs of the job and of the
\* endpoint overlap and store the same chunks, no chunk ever has two embedding
\* rows, a committed row is never replaced, and after the commit of a run
\* every chunk of its batch has exactly one row: the row that was committed
\* first, be it the other run's or, for a chunk that had none, this run's.
C22_ConcurrentIdempotentInsert ==
  [][/\ \A c \in 1..Len(chunks) :
          Cardinality({j \in DOMAIN emb' : emb'[j].chunk_id = c}) <= 1
     /\ \A j \in DOMAIN emb : j \in DOMAIN emb' /\ emb'[j] = emb[j]
     /\ \A r \in Runs :
          (runs[r].pc = "store" /\ runs'[r].pc = "rebuild") =>
            \A i \in DOMAIN runs[r].rows :
              LET c == runs[r].rows[i].id
                  after == {j \in DOMAIN emb' : emb'[j].chunk_id = c}
              IN /\ Cardinality(after) = 1
                 /\ ~HasEmbedding(emb, c) =>
                      \A j \in after : emb'[j].embedding = runs[r].vectors[i]]_vars

C22_Witness ==
  /\ runs[1].pc \in {"rebuild", "write"}
  /\ runs[2].pc \in {"rebuild", "write"}
  /\ runs[1].rows = runs[2].rows
  /\ Len(runs[1].rows) = 2
  /\ runs[1].vectors # runs[2].vectors
  /\ Len(emb) = 2
  /\ emb[1].embedding = runs[2].vectors[1]
  /\ emb[2].embedding = runs[2].vectors[2]

\* C23: the embedding lifecycle is monotone.  A chunk gets an embedding row at
\* most once; once a chunk has a row, no step (a later store of the same
\* chunk_id by an overlapping run included) changes the row's vector, user_id
\* or source or adds a second row; and neither the fetch a run makes nor any
\* later fetch_pending_chunks returns a chunk that has an embedding.
C23_LifecycleMonotone ==
  [][/\ \A c \in 1..Len(chunks) :
          HasEmbedding(emb, c) =>
            LET before == {j \in DOMAIN emb : emb[j].chunk_id = c}
                after == {j \in DOMAIN emb' : emb'[j].chunk_id = c}
            IN /\ Cardinality(after) = 1
               /\ \A i \in before, j \in after :
                    /\ emb'[j].embedding = emb[i].embedding
                    /\ emb'[j].user_id = emb[i].user_id
                    /\ emb'[j].source = emb[i].source
               /\ \A limit \in 1..MaxBatch :
                    /\ c \notin RowIds(FetchPendingChunks(limit))
                    /\ c \notin RowIds(FetchPendingChunks(limit))'
     /\ \A r \in Runs :
          (runs[r].pc = "fetch" /\ runs'[r].pc = "embed") =>
            \A i \in DOMAIN runs'[r].rows : ~HasEmbedding(emb, runs'[r].rows[i].id)]_vars

C23_Witness ==
  /\ runs[1].pc = "rebuild"
  /\ runs[1].rows # <<>>
  /\ \A i \in DOMAIN runs[1].rows :
       \E j \in DOMAIN emb :
         /\ emb[j].chunk_id = runs[1].rows[i].id
         /\ emb[j].embedding # runs[1].vectors[i]
  /\ PendingIds = {}

\* The steps of run r follow the text of process_pending_chunks: after the call
\* a fetch, after a non-empty fetch the embed, then the store, then for each
\* user of the batch the fetch of the user's records and the write, then the
\* next fetch; a fetch starts with nothing of an earlier batch in progress.
RunStepsInOrder(r) ==
  /\ runs'[r].pc # runs[r].pc =>
       \/ runs[r].pc \in {"idle", "done", "failed"} /\ runs'[r].pc \in {"fetch", "done"}
       \/ runs[r].pc = "fetch" /\ runs'[r].pc \in {"embed", "done"}
       \/ runs[r].pc = "embed" /\ runs'[r].pc \in {"store", "failed"}
       \/ runs[r].pc = "store" /\ runs'[r].pc \in {"rebuild", "failed"}
       \/ runs[r].pc = "rebuild" /\ runs'[r].pc = "write"
       \/ runs[r].pc = "write" /\ runs'[r].pc \in {"rebuild", "fetch", "failed"}
  /\ runs'[r].pc = "fetch" =>
       /\ runs'[r].rows = <<>>
       /\ runs'[r].vectors = <<>>
       /\ runs'[r].todo = <<>>
       /\ runs'[r].records = <<>>
  /\ (runs[r].pc = "fetch" /\ runs'[r].pc = "embed") =>
       runs'[r].processed_total = runs[r].processed_total

\* C24 (as claimed): causal order within one run.  The steps of every batch
\* occur in the order fetch pending, embed, store, rebuild snapshots,
\* invalidate cache entries, one batch at a time: the next fetch starts only
\* when the batch before it is finished, and by then the cache entries of the
\* users of that batch have been dropped.
C24_CausalOrder ==
  [][\A r \in Runs :
       /\ RunStepsInOrder(r)
       /\ (runs[r].pc = "write" /\ runs'[r].pc = "fetch") =>
            \A i \in DOMAIN runs[r].rows :
              ~CacheHit(cache', runs[r].rows[i].user_id)]_vars

\* The steps a run does take are in that order (this much holds).
RunsKeepStepOrder == [][\A r \in Runs : RunStepsInOrder(r)]_vars

\* C25: termination of the drain loop.  With the generator, the store and the
\* writer healthy, batch_size >= 1 and no chunk arriving during the run, a run
\* of process_pending_chunks returns; each iteration fetches at least one
\* chunk and its store lowers the number of pending chunks by the size of the
\* batch, no other step of the run changes that number; the batches fetched
\* so far add up to the chunks no longer pending; and when the run returns no
\* chunk is pending and the count returned is the number of chunks that were
\* pending when it began, the sum of the sizes of its batches.
C25_DrainTerminates ==
  /\ \A r \in Scheduled : Active(r) ~> runs[r].pc = "done"
  /\ [][\A r \in Scheduled :
          /\ (runs[r].pc = "store" /\ runs'[r].pc # "store") =>
               /\ Len(runs[r].rows) >= 1
               /\ runs'[r].pc = "rebuild"
               /\ Cardinality(PendingIds') = Cardinality(PendingIds) - Len(runs[r].rows)
          /\ (Active(r) /\ runs[r].pc # "store") => PendingIds' = PendingIds
          /\ (runs[r].pc = "fetch" /\ runs'[r].pc = "embed") =>
               /\ runs'[r].processed_total + Cardinality(PendingIds')
                    = Cardinality(runs'[r].start_pending)
               /\ Len(runs'[r].rows) = Min(runs'[r].batch_size, Cardinality(PendingIds'))
          /\ (Active(r) /\ runs'[r].pc = "done") =>
               /\ PendingIds' = {}
               /\ runs'[r].reported = <<Cardinality(runs'[r].start_pending)>>]_vars

C25_Witness ==
  /\ runs[1].pc = "done"
  /\ Cardinality(runs[1].start_pending) = 2
  /\ runs[1].logged = <<1, 2>>
  /\ runs[1].reported = <<2>>
  /\ PendingIds = {}

\* A search for u can return chunk c: both files of u parse and the sidecar
\* lists c at a row the index has.
InSnapshot(index, meta, u, c) ==
  /\ Readable(index[u])
  /\ Readable(meta[u])
  /\ \E i \in DOMAIN meta[u][1] :
       i \in DOMAIN index[u][1] /\ meta[u][1][i].chunk_id = c

\* C26: the consistency gap after a failed rebuild.  When the store of a batch
\* has committed and the rebuild that follows fails, every chunk of the batch
\* has its embedding (is not pending) while the snapshots of the users not yet
\* rebuilt do not hold their chunks of the batch; no later run fetches a chunk
\* of the failed batch again; and a chunk that has an embedding and is missing
\* from its user's snapshot enters it only in the write of a rebuild of that
\* user (whole, or cut short after index.faiss), which a run makes only for a
\* batch holding a chunk of that user.
C26_ConsistencyGap ==
  [][\A r \in Runs :
       /\ (runs[r].pc \in {"rebuild", "write"} /\ runs'[r].pc = "failed") =>
            \A i \in DOMAIN runs[r].rows :
              LET c == runs[r].rows[i].id
                  u == runs[r].rows[i].user_id
              IN /\ HasEmbedding(emb', c)
                 /\ c \notin PendingIds'
                 /\ (\E t \in DOMAIN runs[r].todo : runs[r].todo[t] = u) =>
                      ~InSnapshot(indexFile', metaFile', u, c)
       /\ (runs[r].pc = "fetch" /\ runs'[r].pc = "embed") =>
            \A c \in runs[r].prev_failed :
              HasEmbedding(emb, c) => c \notin RowIds(runs'[r].rows)
       /\ \A c \in 1..Len(chunks) :
            (/\ HasEmbedding(emb, c)
             /\ ~InSnapshot(indexFile, metaFile, chunks[c], c)
             /\ InSnapshot(indexFile', metaFile', chunks[c], c)) =>
              \E w \in Runs :
                /\ runs[w].pc = "write"
                /\ runs'[w].pc # "write"
                /\ Head(runs[w].todo) = chunks[c]
                /\ \E i \in DOMAIN runs[w].rows : runs[w].rows[i].user_id = chunks[c]
                /\ c \notin RowIds(runs[w].rows) =>
                     \E i \in DOMAIN runs[w].rows :
                       runs[w].rows[i].user_id = chunks[c] /\ runs[w].rows[i].id # c]_vars

C26_Witness ==
  /\ runs[1].pc = "done"
  /\ runs[1].prev_failed = {1}
  /\ runs[1].start_pending = {2}
  /\ chunks = <<"alice", "alice">>
  /\ runs[1].reported = <<1>>
  /\ InSnapshot(indexFile, metaFile, "alice", 1)
  /\ InSnapshot(indexFile, metaFile, "alice", 2)

\* The pair is the index and the sidecar of one write_faiss_index call: as many
\* rows as entries, row i the normalized vector of the embedding of entry i.
MatchedPair(pair) ==
  /\ Readable(pair.index)
  /\ Len(pair.index[1]) = Len(pair.metadata)
  /\ \A i \in DOMAIN pair.metadata :
       \E j \in DOMAIN emb :
         /\ emb[j].chunk_id = pair.metadata[i].chunk_id
         /\ pair.index[1][i] = NormalizeL2(emb[j].embedding)

\* C27 (as claimed): no torn snapshot read inside one process.  With searches
\* and an indexing run in one event loop, a search that loads a snapshot from
\* the files never gets the index.faiss of one rebuild together with the
\* meta.json of another one.
C27_NoTornRead ==
  [][(/\ search.pc # "embed_query"
      /\ search'.pc = "embed_query"
      /\ ~CacheHit(cache, search'.user_id)) =>
       MatchedPair(search'.loaded)]_vars

\* The counts returned by the runs of the set S, added up.
RECURSIVE ReturnedTotal(_)
ReturnedTotal(S) ==
  IF S = {} THEN 0
  ELSE LET r == CHOOSE x \in S : TRUE
       IN (IF runs[r].reported = <<>> THEN 0 ELSE runs[r].reported[1])
            + ReturnedTotal(S \ {r})

\* C28 (as claimed): processed counts are exact.  With no embedding at the
\* start and every run called once, also two runs that overlap, once no run
\* is in progress the counts the runs returned add up to the number of chunks
\* that went from pending to embedded: no chunk is counted by two runs.
C28_CountsExact ==
  (\A r \in Runs : ~Active(r)) => ReturnedTotal(Runs) = Len(emb)

\* C29: circuit breaker fail-fast.  A call_with_breaker made while the breaker
\* is OPEN and less than recovery_timeout has passed since the last recorded
\* failure raises CircuitBreakerError: the wrapped function is not started,
\* and failure_count, last_failure_time and state stay as they are.
C29_FailFast ==
  [][\A c \in Callers :
       (/\ breaker.state = "OPEN"
        /\ now - breaker.last_failure_time < RecoveryTimeout
        /\ calls[c].pc # "running"
        /\ calls'[c] # calls[c])
       => /\ calls'[c].pc = "rejected"
          /\ breaker' = breaker]_vars

C29_Witness ==
  /\ breaker.state = "OPEN"
  /\ breaker.failure_count = FailureThreshold
  /\ now > 0
  /\ now - breaker.last_failure_time < RecoveryTimeout
  /\ calls[1].pc = "rejected"
  /\ calls[2].pc = "running"

\* C30: circuit breaker opening.  From CLOSED the breaker goes to OPEN exactly
\* on the recorded failure that makes failure_threshold failures in a row with
\* no success recorded in between, and from any state it opens only with at
\* least that many in a row; a recorded success sets failure_count to 0, and
\* a CLOSED breaker has counted fewer than failure_threshold failures, all of
\* them since the last success.
C30_OpensAtThreshold ==
  [][/\ (breaker.state # "OPEN" /\ breaker'.state = "OPEN")
          <=> (/\ breaker.state # "OPEN"
               /\ streak' = streak + 1
               /\ streak' >= FailureThreshold)
     /\ (breaker.state = "CLOSED" /\ breaker'.state = "OPEN")
          => streak' = FailureThreshold
     /\ (\E c \in Callers : calls[c].pc = "running" /\ calls'[c].pc = "returned")
          => breaker'.failure_count = 0
     /\ breaker'.state = "CLOSED"
          => /\ breaker'.failure_count = streak'
             /\ streak' < FailureThreshold]_vars

C30_Witness ==
  /\ breaker.state = "OPEN"
  /\ breaker.failure_count = FailureThreshold
  /\ streak = FailureThreshold
  /\ calls[1].pc = "raised"
  /\ calls[2].pc = "returned"

\* A call made with the breaker OPEN and the recovery timeout passed takes it
\* to HALF_OPEN and starts the wrapped function.
RecoveryStarts(c) ==
  (/\ breaker.state = "OPEN"
   /\ now - breaker.last_failure_time >= RecoveryTimeout
   /\ calls[c].pc # "running"
   /\ calls'[c] # calls[c])
  => /\ breaker'.state = "HALF_OPEN"
     /\ calls'[c].pc = "running"
     /\ calls'[c].probe

RecoveryAlwaysStarts == [][\A c \in Callers : RecoveryStarts(c)]_vars

\* C31 (as claimed): circuit breaker recovery.  Once recovery_timeout has
\* passed since the last failure, the next call takes the breaker from OPEN to
\* HALF_OPEN and starts the wrapped function; when that call succeeds the
\* breaker is CLOSED with failure_count 0.
C31_Recovery ==
  [][\A c \in Callers :
       /\ RecoveryStarts(c)
       /\ (calls[c].pc = "running" /\ calls[c].probe /\ calls'[c].pc = "returned")
            => /\ breaker'.state = "CLOSED"
               /\ breaker'.failure_count = 0]_vars

\* A call let through while the breaker was HALF_OPEN that fails leaves the
\* breaker OPEN.
FailedProbeReopens ==
  [][\A c \in Callers :
       (/\ calls[c].pc = "running"
        /\ calls[c].entered = "HALF_OPEN"
        /\ calls'[c].pc = "raised")
       => breaker'.state = "OPEN"]_vars

\* C32 (as claimed): circuit breaker failed recovery.  Under any interleaving
\* of concurrent calls, a call let through while the breaker was HALF_OPEN
\* that fails puts the breaker back to OPEN; and whenever the state is OPEN or
\* HALF_OPEN, failure_count is at least failure_threshold.
C32_FailedRecovery ==
  [][/\ \A c \in Callers :
          (/\ calls[c].pc = "running"
           /\ calls[c].entered = "HALF_OPEN"
           /\ calls'[c].pc = "raised")
          => breaker'.state = "OPEN"
     /\ breaker'.state \in {"OPEN", "HALF_OPEN"}
          => breaker'.failure_count >= FailureThreshold]_vars

\* The calls the breaker let through while HALF_OPEN whose function is running.
ProbesInFlight(cs) == {c \in Callers : cs[c].pc = "running" /\ cs[c].entered = "HALF_OPEN"}

\* C33 (as claimed): circuit breaker single probe.  While the breaker is
\* HALF_OPEN at most one call it let through is in flight, and a caller that
\* arrives while the recovery attempt is in flight is rejected with
\* CircuitBreakerError.
C33_SingleProbe ==
  [][/\ breaker'.state = "HALF_OPEN" => Cardinality(ProbesInFlight(calls')) <= 1
     /\ \A c \in Callers :
          (/\ breaker.state = "HALF_OPEN"
           /\ \E d \in Callers \ {c} : calls[d].pc = "running" /\ calls[d].probe
           /\ calls[c].pc # "running"
           /\ calls'[c] # calls[c])
          => calls'[c].pc = "rejected"]_vars

====
